---- MODULE Spec2Model ----
(***************************************************************************)
(* A model of tools/cmgen/src/CubemapUtils.cpp: the cross layout           *)
(* (setFaceFromCross, setAllFacesFromCross, createCubemapImage, create),   *)
(* copyImage, and the per-row transforms run by process()                  *)
(* (downsampleCubemapLevelBoxFilter, mirrorCubemap, generateUVGrid,        *)
(* equirectangularToCubemap).                                              *)
(*                                                                         *)
(* Memory is a heap of buffers addressed in bytes and stored in 4-byte     *)
(* words (one float); a texel (float3) is three consecutive words.  An     *)
(* Image is a view: a buffer, the byte offset of its first pixel, its      *)
(* width and height in pixels, its row stride and its pixel size in bytes. *)
(***************************************************************************)
EXTENDS Integers, Sequences, FiniteSets, TLC

VARIABLES
    call,     \* the last call made and its arguments
    cm,       \* the (destination) Cubemap: dim, geometry, faces
    image,    \* the (destination) Image
    heap,     \* buffer name -> [size, fill, data]
    nw,       \* number of texel writes made through the faces
    last,     \* <<face, x, y>> -> texel last written through the face
    src,      \* the source Cubemap of a transform
    srcImage, \* the source Image of equirectangularToCubemap and copyImage
    param,    \* the inputs of the running operation
    status,   \* "idle", "ready", "running", "done" or "aborted"
    next,     \* process(): the next (face, row) unit; copyImage: the row y
    wk,       \* process(): worker -> the unit it runs and its column x
    wlog,     \* byte address -> the texel writes made there, with their reads
    reads,    \* the pixel reads of the last step, in order
    ub        \* the accesses ("read", "write") that left their buffer

\* ------------------------------------------------------------ bounds
MaxDim == 2          \* cubemap dimensions range over 1..MaxDim
MaxWrites == 2       \* texel writes made through the faces of a cross

\* --------------------------------------------------- program constants
TexelSize == 12      \* sizeof(Cubemap::Texel): three floats
WordSize == 4        \* sizeof(float)
RowAlignment == 32   \* bpr = (bpr + 31) & ~31

\* ------------------------------------------------------------- faces
Faces == {"NX", "PX", "NY", "PY", "NZ", "PZ"}

FaceOrder == <<"NX", "PX", "NY", "PY", "NZ", "PZ">>

\* --------------------------------------------------------------- heap
Min(a, b) == IF a < b THEN a ELSE b

Max(a, b) == IF a > b THEN a ELSE b

EmptyData == [a \in {} |-> 0]

Buffers == {"D", "S"}

Unallocated == [size |-> 0, fill |-> 0, data |-> EmptyData]

Indeterminate == -1

\* new uint8_t[bufSize]: the content is indeterminate
NewBuffer(bufSize) == [size |-> bufSize, fill |-> Indeterminate, data |-> EmptyData]

NumWords(b) == (b.size + WordSize - 1) \div WordSize

WordAt(b, w) == IF w \in DOMAIN b.data THEN b.data[w] ELSE b.fill

SetWord(b, w, v) ==
    [b EXCEPT !.data =
        IF v = b.fill
        THEN [a \in (DOMAIN b.data) \ {w} |-> b.data[a]]
        ELSE [a \in (DOMAIN b.data) \cup {w} |-> IF a = w THEN v ELSE b.data[a]]]

\* memset(data, value, n) on a buffer, n a multiple of the word size
MemsetShort(b, value, n) ==
    [size |-> b.size, fill |-> b.fill,
     data |-> [a \in { w \in (DOMAIN b.data) \cup (0 .. (n \div WordSize) - 1) :
                        (w < n \div WordSize /\ value # b.fill)
                        \/ (w >= n \div WordSize /\ w \in DOMAIN b.data) }
               |-> IF a < n \div WordSize THEN value ELSE b.data[a]]]

Memset(b, value, n) ==
    IF n >= b.size
    THEN [size |-> b.size, fill |-> value, data |-> EmptyData]
    ELSE MemsetShort(b, value, n)

InBuffer(b, addr, len) == addr >= 0 /\ addr + len <= b.size

\* a texel is three floats at addr, addr + 4, addr + 8
LoadTexel(b, addr) ==
    << WordAt(b, addr \div WordSize),
       WordAt(b, addr \div WordSize + 1),
       WordAt(b, addr \div WordSize + 2) >>

StoreTexel(b, addr, t) ==
    SetWord(SetWord(SetWord(b, addr \div WordSize, t[1]),
                    addr \div WordSize + 1, t[2]),
            addr \div WordSize + 2, t[3])

\* -------------------------------------------------------------- Image
NoImage == [buf |-> "null", off |-> 0, width |-> 0, height |-> 0, bpr |-> 0, bpp |-> 0]

\* Image::getPixelRef(x, y): data + y * bpr + x * bpp
PixelRef(img, x, y) == img.off + y * img.bpr + x * img.bpp

\* Image::subset(image, x, y, w, h): a view that keeps the parent's stride
Subset(img, x, y, w, h) ==
    [buf |-> img.buf, off |-> PixelRef(img, x, y),
     width |-> w, height |-> h, bpr |-> img.bpr, bpp |-> img.bpp]

\* ------------------------------------------------------------ Cubemap
NoFaces == [f \in Faces |-> NoImage]

\* Cubemap::Cubemap(dim)
NewCubemap(dim) == [dim |-> dim, geometry |-> "HORIZONTAL_CROSS", faces |-> NoFaces]

SetGeometry(c, g) == [c EXCEPT !.geometry = g]

\* Cubemap::setImageForFace: the face must have the cubemap's dimension
SetImageForFace(c, face, img) ==
    IF img.width = c.dim /\ img.height = c.dim
    THEN [c EXCEPT !.faces[face] = img]
    ELSE c

\* -------------------------------------------------------- CrossLayout
SetFaceFromCrossFlipped(c, face, img) ==
    LET dim == c.dim
        xy == CASE face = "NX" -> <<0, dim>>
                [] face = "PX" -> <<2 * dim, dim>>
                [] face = "NY" -> <<dim, 2 * dim>>
                [] face = "PY" -> <<dim, 0>>
                [] face = "NZ" -> IF img.height > img.width
                                  THEN <<3 * dim, dim>>
                                  ELSE <<dim, 3 * dim>>
                [] face = "PZ" -> <<dim, dim>>
    IN  SetImageForFace(c, face, Subset(img, xy[1], xy[2], dim, dim))

SetFaceFromCross(c, face, img) ==
    LET dim == c.dim
        xy == CASE face = "NX" -> <<0, dim>>
                [] face = "PX" -> <<2 * dim, dim>>
                [] face = "NY" -> <<dim, 2 * dim>>
                [] face = "PY" -> <<dim, 0>>
                [] face = "NZ" -> IF img.height > img.width
                                  THEN <<dim, 3 * dim>>
                                  ELSE <<3 * dim, dim>>
                [] face = "PZ" -> <<dim, dim>>
    IN  SetImageForFace(c, face, Subset(img, xy[1], xy[2], dim, dim))

SetAllFacesFromCrossTwiceNZ(c, img) ==
    LET c0 == SetGeometry(c, IF img.height > img.width
                             THEN "VERTICAL_CROSS" ELSE "HORIZONTAL_CROSS")
        c1 == SetFaceFromCross(c0, "NX", img)
        c2 == SetFaceFromCross(c1, "PX", img)
        c3 == SetFaceFromCross(c2, "NY", img)
        c4 == SetFaceFromCross(c3, "PY", img)
        c5 == SetFaceFromCross(c4, "NZ", img)
    IN  SetFaceFromCross(c5, "NZ", img)

SetAllFacesFromCross(c, img) ==
    LET c0 == SetGeometry(c, IF img.height > img.width
                             THEN "VERTICAL_CROSS" ELSE "HORIZONTAL_CROSS")
        c1 == SetFaceFromCross(c0, "NX", img)
        c2 == SetFaceFromCross(c1, "PX", img)
        c3 == SetFaceFromCross(c2, "NY", img)
        c4 == SetFaceFromCross(c3, "PY", img)
        c5 == SetFaceFromCross(c4, "NZ", img)
    IN  SetFaceFromCross(c5, "PZ", img)

\* (bpr + 31) & ~31
AlignRow(bpr) == (bpr + (RowAlignment - 1)) - ((bpr + (RowAlignment - 1)) % RowAlignment)

CubemapImageNoPadding(buf, dim, horizontal) ==
    LET width == IF horizontal THEN 4 * dim ELSE 3 * dim
        height == IF horizontal THEN 3 * dim ELSE 4 * dim
        bpr == AlignRow(width * TexelSize)
        bufSize == bpr * height
    IN  [image |-> [buf |-> buf, off |-> 0, width |-> width, height |-> height,
                    bpr |-> bpr, bpp |-> TexelSize],
         buffer |-> Memset(NewBuffer(bufSize), 0, bufSize)]

\* createCubemapImage(dim, horizontal): the Image and the buffer it owns
CreateCubemapImage(buf, dim, horizontal) ==
    LET width == IF horizontal THEN 4 * dim ELSE 3 * dim
        height == IF horizontal THEN 3 * dim ELSE 4 * dim
        bpr == AlignRow((width + 1) * TexelSize)
        bufSize == bpr * (height + 1)
    IN  [image |-> [buf |-> buf, off |-> 0, width |-> width, height |-> height,
                    bpr |-> bpr, bpp |-> TexelSize],
         buffer |-> Memset(NewBuffer(bufSize), 0, bufSize)]

\* create(image, dim, horizontal): the Cubemap, and the Image swapped into image
Create(buf, dim, horizontal) ==
    LET temp == CreateCubemapImage(buf, dim, horizontal)
    IN  [cm |-> SetAllFacesFromCross(NewCubemap(dim), temp.image),
         image |-> temp.image,
         buffer |-> temp.buffer]

\* Image(width, height): an owned, zeroed buffer with tight rows
NewImage(buf, width, height) ==
    [image |-> [buf |-> buf, off |-> 0, width |-> width, height |-> height,
                bpr |-> width * TexelSize, bpp |-> TexelSize],
     buffer |-> Memset(NewBuffer(width * TexelSize * height), 0,
                       width * TexelSize * height)]

\* ------------------------------------------------- the cross layout
vars == <<call, cm, image, heap, nw, last, src, srcImage, param, status, next, wk, wlog, reads, ub>>

crossVars == <<call, cm, image, heap, nw, last>>

runVars == <<src, srcImage, param, status, next, wk, wlog, reads, ub>>

Workers == {"w1", "w2"}

Idle == [unit |-> -1, x |-> 0]

NoLog == [a \in {} |-> <<>>]

NoParam == [paint |-> "none", gridFrequency |-> 0, ndebug |-> FALSE, bbox |-> <<0, 0>>, seed |-> 0]

NoTexels == [k \in {} |-> <<0, 0, 0>>]

\* the texel written by the k-th write: three distinct floats
Stamp(k) == <<10 * k + 1, 10 * k + 2, 10 * k + 3>>

InitCross ==
    /\ call = <<"Cubemap">>
    /\ \E dim \in 1 .. MaxDim : cm = NewCubemap(dim)
    /\ image = NoImage
    /\ heap = [b \in Buffers |-> Unallocated]
    /\ nw = 0
    /\ last = NoTexels
    /\ src = NewCubemap(0)
    /\ srcImage = NoImage
    /\ param = NoParam
    /\ status = "idle"
    /\ next = 0
    /\ wk = [w \in Workers |-> Idle]
    /\ wlog = NoLog
    /\ reads = <<>>
    /\ ub = {}

DoCreateCubemapImage(dim, horizontal) ==
    /\ image = NoImage
    /\ LET r == CreateCubemapImage("D", dim, horizontal)
       IN  /\ image' = r.image
           /\ heap' = [heap EXCEPT !["D"] = r.buffer]
    /\ call' = <<"createCubemapImage", dim, horizontal>>
    /\ UNCHANGED <<cm, nw, last>>
    /\ UNCHANGED runVars

DoNewImage(width, height) ==
    /\ image = NoImage
    /\ LET r == NewImage("D", width, height)
       IN  /\ image' = r.image
           /\ heap' = [heap EXCEPT !["D"] = r.buffer]
    /\ call' = <<"Image", width, height>>
    /\ UNCHANGED <<cm, nw, last>>
    /\ UNCHANGED runVars

DoSetFaceFromCross(face) ==
    /\ image # NoImage
    /\ nw = 0
    /\ cm' = SetFaceFromCross(cm, face, image)
    /\ call' = <<"setFaceFromCross", face>>
    /\ UNCHANGED <<image, heap, nw, last>>
    /\ UNCHANGED runVars

DoSetAllFacesFromCross ==
    /\ image # NoImage
    /\ nw = 0
    /\ cm' = SetAllFacesFromCross(cm, image)
    /\ call' = <<"setAllFacesFromCross">>
    /\ UNCHANGED <<image, heap, nw, last>>
    /\ UNCHANGED runVars

DoCreate(dim, horizontal) ==
    /\ image = NoImage
    /\ LET r == Create("D", dim, horizontal)
       IN  /\ cm' = r.cm
           /\ image' = r.image
           /\ heap' = [heap EXCEPT !["D"] = r.buffer]
    /\ call' = <<"create", dim, horizontal>>
    /\ UNCHANGED <<nw, last>>
    /\ UNCHANGED runVars

\* Cubemap::writeAt through the face's pixel pointer
DoWriteAt(face, x, y) ==
    /\ call[1] \in {"create", "writeAt"}
    /\ nw < MaxWrites
    /\ LET img == cm.faces[face]
           addr == PixelRef(img, x, y)
       IN  IF InBuffer(heap[img.buf], addr, TexelSize)
           THEN /\ heap' = [heap EXCEPT ![img.buf] = StoreTexel(@, addr, Stamp(nw + 1))]
                /\ call' = <<"writeAt", face, x, y>>
           ELSE /\ heap' = heap
                /\ call' = <<"out of bounds", face, x, y>>
    /\ nw' = nw + 1
    /\ last' = [k \in (DOMAIN last) \cup {<<face, x, y>>} |->
                   IF k = <<face, x, y>> THEN Stamp(nw + 1) ELSE last[k]]
    /\ UNCHANGED <<cm, image>>
    /\ UNCHANGED runVars

NextCross ==
    \/ \E dim \in 1 .. MaxDim, horizontal \in BOOLEAN : DoCreateCubemapImage(dim, horizontal)
    \/ \E d \in 1 .. MaxDim, a \in 1 .. 4, b \in 1 .. 4 : DoNewImage(a * d, b * d)
    \/ \E face \in Faces : DoSetFaceFromCross(face)
    \/ DoSetAllFacesFromCross
    \/ \E dim \in 1 .. MaxDim, horizontal \in BOOLEAN : DoCreate(dim, horizontal)
    \/ \E face \in Faces, x \in 0 .. cm.dim - 1, y \in 0 .. cm.dim - 1 : DoWriteAt(face, x, y)

SpecCross == InitCross /\ [][NextCross]_vars

\* ------------------------------------------- claims on the cross layout
\* the (column, row) cell of each face in the cross
CrossCell(face, vertical) ==
    CASE face = "NX" -> <<0, 1>>
      [] face = "PX" -> <<2, 1>>
      [] face = "NY" -> <<1, 2>>
      [] face = "PY" -> <<1, 0>>
      [] face = "PZ" -> <<1, 1>>
      [] face = "NZ" -> IF vertical THEN <<1, 3>> ELSE <<3, 1>>

\* the n x n view of img whose top-left pixel is (column * n, row * n)
CellView(img, n, face) ==
    LET cell == CrossCell(face, img.height > img.width)
    IN  [buf |-> img.buf,
         off |-> img.off + (cell[2] * n) * img.bpr + (cell[1] * n) * img.bpp,
         width |-> n, height |-> n, bpr |-> img.bpr, bpp |-> img.bpp]

\* C1: every setFaceFromCross(cm, f, image) step leaves face f the N x N
\* sub-rectangle of image at (column * N, row * N) of the face's cell, NZ's
\* cell being (1,3) when image.height > image.width and (3,1) otherwise, and
\* leaves every other face of cm as it was.
C1_FaceFromCrossCell ==
    [][\A f \in Faces :
         (call'[1] = "setFaceFromCross" /\ call'[2] = f) =>
             /\ cm'.faces[f] = CellView(image, cm.dim, f)
             /\ \A g \in Faces \ {f} : cm'.faces[g] = cm.faces[g]]_vars

C1_Witness ==
    /\ call[1] = "setFaceFromCross"
    /\ call[2] = "NZ"
    /\ image.height > image.width
    /\ cm.faces["NZ"] = CellView(image, cm.dim, "NZ")
    /\ cm.faces["PZ"] = NoImage
    /\ cm.faces["NX"] # NoImage

CellOrigin(face, n, vertical) ==
    <<CrossCell(face, vertical)[1] * n, CrossCell(face, vertical)[2] * n>>

CellPixels(face, n, vertical) ==
    { <<CellOrigin(face, n, vertical)[1] + x, CellOrigin(face, n, vertical)[2] + y>> :
        x \in 0 .. n - 1, y \in 0 .. n - 1 }

LastWritten(face, x, y) ==
    IF <<face, x, y>> \in DOMAIN last THEN last[<<face, x, y>>] ELSE <<0, 0, 0>>

\* C2: after create(N, horizontal), in both layouts, the six faces are
\* pairwise disjoint N x N rectangles inside the width x height image (two
\* N x N rectangles are disjoint exactly when their origins are N or more
\* apart along x or along y), no write through a face leaves the buffer, and
\* after any writes through the faces the cross pixel (ox_f + x, oy_f + y)
\* holds the texel last written to face f at (x, y) (zero when none was), so
\* no write through one face changes a texel of another.
C2_RoundTripPacking ==
    call[1] \in {"create", "writeAt", "out of bounds"} =>
        /\ call[1] # "out of bounds"
        /\ \A f \in Faces :
             LET o == CellOrigin(f, cm.dim, image.height > image.width)
             IN  /\ cm.faces[f] = Subset(image, o[1], o[2], cm.dim, cm.dim)
                 /\ o[1] >= 0 /\ o[1] + cm.dim <= image.width
                 /\ o[2] >= 0 /\ o[2] + cm.dim <= image.height
                 /\ \A g \in Faces \ {f} :
                      LET q == CellOrigin(g, cm.dim, image.height > image.width)
                      IN  \/ o[1] + cm.dim <= q[1]
                          \/ q[1] + cm.dim <= o[1]
                          \/ o[2] + cm.dim <= q[2]
                          \/ q[2] + cm.dim <= o[2]
                 /\ \A x \in 0 .. cm.dim - 1, y \in 0 .. cm.dim - 1 :
                      LoadTexel(heap[image.buf], PixelRef(image, o[1] + x, o[2] + y))
                        = LastWritten(f, x, y)

C2_Witness ==
    /\ call[1] = "writeAt"
    /\ nw = MaxWrites
    /\ cm.dim = MaxDim
    /\ image.height > image.width
    /\ <<"NZ", 0, 0>> \in DOMAIN last
    /\ Cardinality(DOMAIN last) < nw

IsCross(img, n) ==
    \/ img.width = 4 * n /\ img.height = 3 * n
    \/ img.width = 3 * n /\ img.height = 4 * n

\* C6: setAllFacesFromCross(cm, image) with an image that is neither 4N x 3N
\* nor 3N x 4N assigns no face, so every face it assigns lies inside the
\* image's width and height.
C6_MalformedCrossRejected ==
    [][(call'[1] = "setAllFacesFromCross") =>
         /\ ~IsCross(image, cm.dim) => cm'.faces = cm.faces
         /\ \A f \in Faces :
              cm'.faces[f] # cm.faces[f] =>
                \A p \in CellPixels(f, cm.dim, image.height > image.width) :
                    p[1] < image.width /\ p[2] < image.height]_vars

\* C7: createCubemapImage(dim, horizontal) returns a 4dim x 3dim image when
\* horizontal and a 3dim x 4dim image otherwise; its stride is a multiple of
\* 32 bytes in [(width + 1) * 12, (width + 1) * 12 + 32); its buffer holds
\* stride * (height + 1) bytes and every one of them is zero.
C7_CubemapImageShape ==
    call[1] = "createCubemapImage" =>
        LET dim == call[2]
            b == heap[image.buf]
        IN  /\ image.width = (IF call[3] THEN 4 * dim ELSE 3 * dim)
            /\ image.height = (IF call[3] THEN 3 * dim ELSE 4 * dim)
            /\ image.bpp = 12
            /\ image.off = 0
            /\ image.bpr % 32 = 0
            /\ image.bpr >= (image.width + 1) * 12
            /\ image.bpr < (image.width + 1) * 12 + 32
            /\ b.size = image.bpr * (image.height + 1)
            /\ \A w \in 0 .. (b.size \div 4) - 1 : WordAt(b, w) = 0

C7_Witness ==
    /\ call[1] = "createCubemapImage"
    /\ call[2] = MaxDim
    /\ ~call[3]
    /\ image.width = 3 * MaxDim
    /\ heap[image.buf].size > 0

\* ------------------------------------------------------ the transforms
FaceIndex(face) == CHOOSE i \in 1 .. 6 : FaceOrder[i] = face

\* a pixel read: where it reads and what it gets; outside the buffer the
\* value is indeterminate
PixelRead(img, face, x, y) ==
    LET addr == PixelRef(img, x, y)
        inside == InBuffer(heap[img.buf], addr, TexelSize)
    IN  [buf |-> img.buf, addr |-> addr, face |-> face, x |-> x, y |-> y,
         inside |-> inside,
         value |-> IF inside THEN LoadTexel(heap[img.buf], addr)
                   ELSE <<Indeterminate, Indeterminate, Indeterminate>>]

\* Cubemap::filterAt(image, x, y), the coordinates given in half pixels:
\* x0 = size_t(x), u = x - x0, the blend of the 2 x 2 neighbourhood
FilterAt(img, face, x2, y2) ==
    LET x0 == x2 \div 2
        y0 == y2 \div 2
        u2 == x2 % 2
        v2 == y2 % 2
        c0 == PixelRead(img, face, x0, y0)
        c1 == PixelRead(img, face, x0 + 1, y0)
        c2 == PixelRead(img, face, x0, y0 + 1)
        c3 == PixelRead(img, face, x0 + 1, y0 + 1)
    IN  [reads |-> <<c0, c1, c2, c3>>,
         value |-> [i \in 1 .. 3 |->
                      ((2 - u2) * (2 - v2) * c0.value[i] + u2 * (2 - v2) * c1.value[i]
                       + (2 - u2) * v2 * c2.value[i] + u2 * v2 * c3.value[i]) \div 4]]

DownsampleScaleCeil(srcDim, dstDim) == (srcDim + dstDim - 1) \div dstDim

\* size_t scale = src.getDimensions() / dst.getDimensions()
DownsampleScale(srcDim, dstDim) == srcDim \div dstDim

DownsampleTexelOffCentre(f, x, y) ==
    LET scale == DownsampleScale(src.dim, cm.dim)
    IN  FilterAt(src.faces[f], f, 2 * x * scale + 3, 2 * y * scale + 3)

\* filterAt(src.getImageForFace(f), x * scale + 0.5, y * scale + 0.5)
DownsampleTexel(f, x, y) ==
    LET scale == DownsampleScale(src.dim, cm.dim)
    IN  FilterAt(src.faces[f], f, 2 * x * scale + 1, 2 * y * scale + 1)

\* src.sampleAt(-N.x, N.y, N.z) for N = dst.getDirectionFor(f, x, y): the
\* texel centre mirrored in x, on the face opposite in x, nearest texel
MirrorFace(f) == CASE f = "NX" -> "PX" [] f = "PX" -> "NX" [] OTHER -> f

MirrorTexel(f, x, y) ==
    LET sx == Min((src.dim * (2 * cm.dim - 2 * x - 1)) \div (2 * cm.dim), src.dim - 1)
        sy == Min((src.dim * (2 * y + 1)) \div (2 * cm.dim), src.dim - 1)
        r == PixelRead(src.faces[MirrorFace(f)], MirrorFace(f), sx, sy)
    IN  [reads |-> <<r>>, value |-> r.value]

\* colors[6]
GridColors ==
    [NX |-> <<1, 0, 0>>, PX |-> <<1, 1, 1>>, NY |-> <<0, 1, 0>>,
     PY |-> <<0, 0, 1>>, NZ |-> <<1, 0, 1>>, PZ |-> <<1, 1, 0>>]

UvGridHDRIntensity == 5

UVGridTexel(f, x, y) ==
    LET gridSize == cm.dim \div param.gridFrequency
        grid == ((x \div gridSize) + (y \div gridSize)) % 2 = 1
    IN  [reads |-> <<>>,
         value |-> IF grid
                   THEN [i \in 1 .. 3 |-> GridColors[f][i] * UvGridHDRIntensity]
                   ELSE <<0, 0, 0>>]

\* extents of a bounding box are given in units of 1 / ExtentUnit pixel
ExtentUnit == 2
MaxExtent == 5

NumSamplesCeil(w, h) ==
    Max(1, ((w + ExtentUnit - 1) \div ExtentUnit) * ((h + ExtentUnit - 1) \div ExtentUnit))

\* dx = max(1.0, maxx - minx), dy = max(1.0, maxy - miny), size_t(dx * dy)
NumSamples(w, h) ==
    (Max(ExtentUnit, w) * Max(ExtentUnit, h)) \div (ExtentUnit * ExtentUnit)

\* the source pixel of a sample: toRectilinear(getDirectionFor(f, x + h.x,
\* y + h.y)) truncated; the projection is transcendental and stands here as
\* a fixed map into the source image
SamplePixel(f, x, y, sample) ==
    << (FaceIndex(f) + x + sample + param.seed) % srcImage.width,
       (y + sample) % srcImage.height >>

RECURSIVE SumValues(_, _)
SumValues(rs, n) ==
    IF n = 0 THEN <<0, 0, 0>>
    ELSE [i \in 1 .. 3 |-> SumValues(rs, n - 1)[i] + rs[n].value[i]]

EquirectTexel(f, x, y) ==
    LET numSamples == NumSamples(param.bbox[1], param.bbox[2])
        rs == [k \in 1 .. numSamples |->
                 PixelRead(srcImage, "", SamplePixel(f, x, y, k - 1)[1],
                           SamplePixel(f, x, y, k - 1)[2])]
        c == SumValues(rs, numSamples)
    IN  [reads |-> rs, value |-> [i \in 1 .. 3 |-> c[i] \div numSamples]]

Transform(name, f, x, y) ==
    CASE name = "downsampleCubemapLevelBoxFilter" -> DownsampleTexel(f, x, y)
      [] name = "mirrorCubemap" -> MirrorTexel(f, x, y)
      [] name = "generateUVGrid" -> UVGridTexel(f, x, y)
      [] name = "equirectangularToCubemap" -> EquirectTexel(f, x, y)

ProcessOps ==
    {"downsampleCubemapLevelBoxFilter", "mirrorCubemap", "generateUVGrid",
     "equirectangularToCubemap"}

\* ------------------------------------------------------------ process()
\* the units are the (face, row) pairs, face-major
UnitFace(k, dim) == FaceOrder[k \div dim + 1]

UnitRow(k, dim) == k % dim

\* the Texel* handed to the callback: the face's getPixelRef(0, y)
RowData(c, f, y) == PixelRef(c.faces[f], 0, y)

LoopContinuesInclusive(x, dim) == x <= dim

\* for (size_t x = 0; x < dim; ++x, ++data)
LoopContinues(x, dim) == x < dim

\* ++data on a Texel*
TexelAddr(data, x) == data + x * TexelSize

AssertSizesWidthOnly(dst, s) == dst.width >= s.width

\* assert(dst.getWidth() >= src.getWidth() && dst.getHeight() >= src.getHeight())
AssertSizes(dst, s) == dst.width >= s.width /\ dst.height >= s.height

\* --------------------------------------------------- the runs' inputs
\* a buffer with the texels of cells, a set of <<address, texel>>, stored
StoreAll(b, cells) ==
    LET words == UNION { { c[1] \div WordSize + i : i \in 0 .. 2 } : c \in cells }
        val(w) == LET c == CHOOSE e \in cells : (w - e[1] \div WordSize) \in 0 .. 2
                  IN  c[2][w - c[1] \div WordSize + 1]
    IN  [b EXCEPT !.data =
           [a \in { w \in (DOMAIN b.data) \cup words :
                      IF w \in words THEN val(w) # b.fill ELSE TRUE }
            |-> IF a \in words THEN val(a) ELSE b.data[a]]]

UniformColor == <<4, 8, 12>>

PatternTexel(k) == <<4 * k, 4 * k + 1000, 4 * k + 2000>>

\* a source cubemap's buffer, painted through its faces: "uniform" paints
\* the N x N texels of every face with one colour, "seamless" also the row
\* and the column of index N, "pattern" gives every texel its own colour
Painted(b, c, paint) ==
    LET top == IF paint = "seamless" THEN c.dim ELSE c.dim - 1
    IN  StoreAll(b, { << PixelRef(c.faces[f], x, y),
                         IF paint = "pattern"
                         THEN PatternTexel(1 + ((FaceIndex(f) - 1) * c.dim + y) * c.dim + x)
                         ELSE UniformColor >> :
                      f \in Faces, x \in 0 .. top, y \in 0 .. top })

RECURSIVE Gcd(_, _)
Gcd(a, b) == IF b = 0 THEN a ELSE Gcd(b, a % b)

RECURSIVE LcmUpTo(_)
LcmUpTo(n) == IF n <= 1 THEN 1 ELSE (LcmUpTo(n - 1) * n) \div Gcd(LcmUpTo(n - 1), n)

\* source pixels are multiples of SampleUnit, so that a mean of up to
\* NumSamples(MaxExtent, MaxExtent) of them is exact
SampleUnit == LcmUpTo(NumSamples(MaxExtent, MaxExtent))

PaintedImage(b, img) ==
    StoreAll(b, { << PixelRef(img, x, y),
                     << SampleUnit * (1 + y * img.width + x),
                        2 * SampleUnit * (1 + y * img.width + x),
                        3 * SampleUnit * (1 + y * img.width + x) >> >> :
                  x \in 0 .. img.width - 1, y \in 0 .. img.height - 1 })

\* every word of a buffer given its own value
FillPattern(b, base) ==
    [size |-> b.size, fill |-> b.fill,
     data |-> [w \in 0 .. NumWords(b) - 1 |-> base + w]]

\* the images copyImage is given: plain images, cross images, and faces of
\* a cubemap made by create()
PlainImages(buf) ==
    { NewImage(buf, w, h) : w \in 1 .. MaxDim, h \in 1 .. MaxDim }

CrossImages(buf) ==
    { CreateCubemapImage(buf, d, hz) : d \in 1 .. MaxDim, hz \in BOOLEAN }

FaceImages(buf) ==
    { [image |-> Create(buf, d, hz).cm.faces[f], buffer |-> Create(buf, d, hz).buffer] :
        d \in 1 .. MaxDim, hz \in BOOLEAN, f \in {"NX", "NZ"} }

RunStart(name) ==
    /\ call = <<name>>
    /\ nw = 0
    /\ last = NoTexels
    /\ status = "ready"
    /\ next = 0
    /\ wk = [w \in Workers |-> Idle]
    /\ wlog = NoLog
    /\ reads = <<>>
    /\ ub = {}

InitDestination(dim, horizontal) ==
    LET d == Create("D", dim, horizontal)
    IN  /\ cm = d.cm
        /\ image = d.image

InitFromCubemap(name, paints) ==
    /\ RunStart(name)
    /\ \E n \in 1 .. MaxDim, m \in 1 .. MaxDim, sh \in BOOLEAN, dh \in BOOLEAN,
          paint \in paints :
         LET s == Create("S", n, sh)
         IN  /\ InitDestination(m, dh)
             /\ heap = [b \in Buffers |-> IF b = "D" THEN Create("D", m, dh).buffer
                                          ELSE Painted(s.buffer, s.cm, paint)]
             /\ src = s.cm
             /\ srcImage = s.image
             /\ param = [NoParam EXCEPT !.paint = paint]

InitUVGrid ==
    /\ RunStart("generateUVGrid")
    /\ \E m \in 1 .. MaxDim, dh \in BOOLEAN :
         /\ InitDestination(m, dh)
         /\ heap = [b \in Buffers |-> IF b = "D" THEN Create("D", m, dh).buffer
                                      ELSE Unallocated]
         /\ \E g \in 1 .. m : param = [NoParam EXCEPT !.gridFrequency = g]
    /\ src = NewCubemap(0)
    /\ srcImage = NoImage

\* equirectangularToCubemap on cubemaps of the given dimensions, with the
\* given extents of the texels' bounding boxes
InitEquirect(dims, extents) ==
    /\ RunStart("equirectangularToCubemap")
    /\ \E m \in dims, dh \in BOOLEAN :
         LET s == NewImage("S", 2 * m, m)
         IN  /\ InitDestination(m, dh)
             /\ heap = [b \in Buffers |-> IF b = "D" THEN Create("D", m, dh).buffer
                                          ELSE PaintedImage(s.buffer, s.image)]
             /\ srcImage = s.image
    /\ \E w \in extents, h \in extents, seed \in 0 .. 1 :
         param = [NoParam EXCEPT !.bbox = <<w, h>>, !.seed = seed]
    /\ src = NewCubemap(0)

InitCopy ==
    /\ RunStart("copyImage")
    /\ \E d \in PlainImages("D") \cup CrossImages("D"),
          s \in PlainImages("S") \cup CrossImages("S") \cup FaceImages("S") :
         /\ image = d.image
         /\ srcImage = s.image
         /\ heap = [b \in Buffers |-> IF b = "D" THEN FillPattern(d.buffer, 5000)
                                      ELSE FillPattern(s.buffer, 1000)]
    /\ \E nd \in BOOLEAN : param = [NoParam EXCEPT !.ndebug = nd]
    /\ cm = NewCubemap(0)
    /\ src = NewCubemap(0)

InitRun ==
    \/ InitFromCubemap("downsampleCubemapLevelBoxFilter", {"uniform", "seamless", "pattern"})
    \/ InitFromCubemap("mirrorCubemap", {"pattern"})
    \/ InitUVGrid
    \/ InitEquirect(1 .. MaxDim, {MaxExtent})
    \/ InitCopy

\* ------------------------------------------------------------ the runs
\* entry of the call: copyImage asserts the sizes (compiled out under
\* NDEBUG); the transforms hand their callback to process() at once
Begin ==
    /\ status = "ready"
    /\ status' = IF call[1] = "copyImage" /\ ~param.ndebug /\ ~AssertSizes(image, srcImage)
                 THEN "aborted"
                 ELSE "running"
    /\ UNCHANGED <<call, cm, image, heap, nw, last, src, srcImage, param, next, wk,
                   wlog, reads, ub>>

\* a worker's step: a free worker takes the next (face, row) unit; then one
\* iteration of the callback's loop over x, which computes the texel and
\* does Cubemap::writeAt(data, texel)
TexelStep(w) ==
    /\ status = "running"
    /\ call[1] \in ProcessOps
    /\ wk[w] = Idle => next < 6 * cm.dim
    /\ LET unit == IF wk[w] = Idle THEN next ELSE wk[w].unit
           f == UnitFace(unit, cm.dim)
           y == UnitRow(unit, cm.dim)
           x == wk[w].x
           addr == TexelAddr(RowData(cm, f, y), x)
           buf == cm.faces[f].buf
           t == Transform(call[1], f, x, y)
           inside == InBuffer(heap[buf], addr, TexelSize)
       IN  /\ heap' = IF inside
                      THEN [heap EXCEPT ![buf] = StoreTexel(@, addr, t.value)]
                      ELSE heap
           /\ wlog' = [a \in (DOMAIN wlog) \cup {addr} |->
                          IF a = addr
                          THEN (IF a \in DOMAIN wlog THEN wlog[a] ELSE <<>>)
                               \o <<[buf |-> buf, f |-> f, y |-> y, x |-> x,
                                     value |-> t.value, reads |-> t.reads]>>
                          ELSE wlog[a]]
           /\ ub' = ub \cup (IF inside THEN {} ELSE {"write"})
                         \cup (IF \A i \in DOMAIN t.reads : t.reads[i].inside
                               THEN {} ELSE {"read"})
           /\ wk' = [wk EXCEPT ![w] = IF LoopContinues(x + 1, cm.dim)
                                      THEN [unit |-> unit, x |-> x + 1]
                                      ELSE Idle]
    /\ next' = IF wk[w] = Idle THEN next + 1 ELSE next
    /\ UNCHANGED <<call, cm, image, nw, last, src, srcImage, param, status, reads>>

\* process() returns when every unit has run
Barrier ==
    /\ status = "running"
    /\ call[1] \in ProcessOps
    /\ next = 6 * cm.dim
    /\ \A w \in Workers : wk[w] = Idle
    /\ status' = "done"
    /\ UNCHANGED <<call, cm, image, heap, nw, last, src, srcImage, param, next, wk,
                   wlog, reads, ub>>

JunkWords == {Indeterminate, Indeterminate - 1}

\* one iteration of copyImage's loop:
\* memcpy(dst.getPixelRef(0, y), src.getPixelRef(0, y), src.getBytesPerRow())
CopyRow ==
    /\ status = "running"
    /\ call[1] = "copyImage"
    /\ next < srcImage.height
    /\ LET to == PixelRef(image, 0, next) \div WordSize
           from == PixelRef(srcImage, 0, next) \div WordSize
           len == srcImage.bpr \div WordSize
           d == heap[image.buf]
           s == heap[srcImage.buf]
           target == { w \in to .. to + len - 1 : w < NumWords(d) }
           readsOutside == \E i \in 0 .. len - 1 : from + i >= NumWords(s)
           writesOutside == \E i \in 0 .. len - 1 : to + i >= NumWords(d)
       IN  \E junk \in (IF readsOutside THEN JunkWords ELSE {Indeterminate}) :
             LET word(w) == IF from + (w - to) < NumWords(s)
                            THEN WordAt(s, from + (w - to))
                            ELSE junk
             IN  /\ heap' = [heap EXCEPT ![image.buf].data =
                               [a \in { w \in (DOMAIN d.data) \cup target :
                                          IF w \in target THEN word(w) # d.fill ELSE TRUE }
                                |-> IF a \in target THEN word(a) ELSE d.data[a]]]
                 /\ ub' = ub \cup (IF readsOutside THEN {"read"} ELSE {})
                               \cup (IF writesOutside THEN {"write"} ELSE {})
    /\ next' = next + 1
    /\ status' = IF next + 1 < srcImage.height THEN "running" ELSE "done"
    /\ UNCHANGED <<call, cm, image, nw, last, src, srcImage, param, wk, wlog, reads>>

NextRun ==
    \/ Begin
    \/ \E w \in Workers : TexelStep(w)
    \/ Barrier
    \/ CopyRow

SpecRun == InitRun /\ [][NextRun]_vars

\* equirectangularToCubemap alone, over every extent of the bounding boxes
InitSample == InitEquirect({1}, 0 .. MaxExtent)

NextSample ==
    \/ Begin
    \/ \E w \in Workers : TexelStep(w)
    \/ Barrier

SpecSample == InitSample /\ [][NextSample]_vars

\* ------------------------------------------------ claims on the runs
\* the byte address of texel (x, y) of face f in the cross image img
CrossAddr(img, f, n, x, y) ==
    LET o == CellOrigin(f, n, img.height > img.width)
    IN  img.off + (o[2] + y) * img.bpr + (o[1] + x) * 12

FaceTexels(n) == { <<f, x, y>> : f \in Faces, x \in 0 .. n - 1, y \in 0 .. n - 1 }

LogEntries == UNION { { wlog[a][i] : i \in DOMAIN wlog[a] } : a \in DOMAIN wlog }

\* C3: in every interleaving of the (face, row) units of a transform whose
\* destination was built by create(), no access leaves its buffer; every
\* write goes to the destination buffer, never to the source's; every
\* address is written at most once, by the unit (f, y) at a column x < N, and
\* it is the address of cross texel (f, x, y), so the units' writes never
\* overlap; when process() returns every texel (f, x, y) has been written
\* exactly once and holds the value the transform gives for (f, x, y),
\* whatever the interleaving was.
C3_DisjointRowWrites ==
    call[1] \in ProcessOps =>
        /\ ub = {}
        /\ srcImage.buf # image.buf
        /\ \A a \in DOMAIN wlog :
             /\ Len(wlog[a]) = 1
             /\ wlog[a][1].buf = image.buf
             /\ wlog[a][1].x < cm.dim /\ wlog[a][1].y < cm.dim
             /\ a = CrossAddr(image, wlog[a][1].f, cm.dim, wlog[a][1].x, wlog[a][1].y)
        /\ \A a \in DOMAIN wlog, b \in DOMAIN wlog : a < b => a + 12 <= b
        /\ \A w \in Workers :
             wk[w] # Idle =>
                \A x \in 0 .. cm.dim - 1 :
                   (CrossAddr(image, UnitFace(wk[w].unit, cm.dim), cm.dim, x,
                              UnitRow(wk[w].unit, cm.dim)) \in DOMAIN wlog) <=> (x < wk[w].x)
        /\ status = "done" =>
             \A t \in FaceTexels(cm.dim) :
                /\ CrossAddr(image, t[1], cm.dim, t[2], t[3]) \in DOMAIN wlog
                /\ LoadTexel(heap[image.buf], CrossAddr(image, t[1], cm.dim, t[2], t[3]))
                     = Transform(call[1], t[1], t[2], t[3]).value

C3_Witness ==
    /\ call[1] = "mirrorCubemap"
    /\ cm.dim = MaxDim
    /\ wk["w1"] # Idle /\ wk["w2"] # Idle
    /\ wk["w1"].x > 0 /\ wk["w2"].x > 0
    /\ UnitFace(wk["w1"].unit, cm.dim) = "PZ"
    /\ UnitFace(wk["w2"].unit, cm.dim) = "NX"

DstTexel(x, y) == LoadTexel(heap[image.buf], PixelRef(image, x, y))

SrcTexel(x, y) == LoadTexel(heap[srcImage.buf], PixelRef(srcImage, x, y))

InitialDstTexel(x, y) ==
    << 5000 + PixelRef(image, x, y) \div 4, 5001 + PixelRef(image, x, y) \div 4,
       5002 + PixelRef(image, x, y) \div 4 >>

\* C4: copyImage(dst, src) with dst at least as wide and as high as src, for
\* any strides, ends with dst(x, y) = src(x, y) on the src.width x src.height
\* rectangle, every other texel of dst as it was, and no write outside dst's
\* buffer.
C4_CopyImageExact ==
    (/\ call[1] = "copyImage"
     /\ status = "done"
     /\ image.width >= srcImage.width
     /\ image.height >= srcImage.height) =>
        /\ "write" \notin ub
        /\ \A x \in 0 .. image.width - 1, y \in 0 .. image.height - 1 :
             DstTexel(x, y) = IF x < srcImage.width /\ y < srcImage.height
                              THEN SrcTexel(x, y)
                              ELSE InitialDstTexel(x, y)

DstUntouched ==
    \A w \in 0 .. NumWords(heap[image.buf]) - 1 : WordAt(heap[image.buf], w) = 5000 + w

\* C5 as stated: a downsample whose source dimension is no multiple of the
\* destination's, and a copyImage into a narrower or lower destination, abort
\* before any destination texel is written.
C5_MismatchAborts ==
    /\ (call[1] = "downsampleCubemapLevelBoxFilter" /\ src.dim % cm.dim # 0) =>
          (status \in {"ready", "aborted"} /\ DOMAIN wlog = {})
    /\ (call[1] = "copyImage"
        /\ (image.width < srcImage.width \/ image.height < srcImage.height)) =>
          (status \in {"ready", "aborted"} /\ DstUntouched)

\* C5 amended: copyImage into a narrower or lower destination aborts on its
\* assertion, before any write, when assertions are compiled in;
\* downsampleCubemapLevelBoxFilter checks nothing: it never aborts, and with
\* scale = srcDim / dstDim rounded down it writes all 6 * dstDim^2 texels.
C5_AssertOnlyInCopyImage ==
    /\ (call[1] = "copyImage" /\ ~param.ndebug
        /\ (image.width < srcImage.width \/ image.height < srcImage.height)) =>
          (status \in {"ready", "aborted"} /\ DstUntouched /\ ub = {})
    /\ (call[1] = "copyImage" /\ status = "aborted") =>
          (~param.ndebug /\ (image.width < srcImage.width \/ image.height < srcImage.height))
    /\ call[1] = "downsampleCubemapLevelBoxFilter" =>
          /\ status # "aborted"
          /\ status = "done" =>
               \A t \in FaceTexels(cm.dim) :
                  /\ CrossAddr(image, t[1], cm.dim, t[2], t[3]) \in DOMAIN wlog
                  /\ \A i \in 1 .. 4 :
                       LET r == wlog[CrossAddr(image, t[1], cm.dim, t[2], t[3])][1].reads[i]
                       IN  /\ r.x = t[2] * (src.dim \div cm.dim) + ((i - 1) % 2)
                           /\ r.y = t[3] * (src.dim \div cm.dim) + ((i - 1) \div 2)

C5_Witness ==
    /\ call[1] = "copyImage"
    /\ status = "aborted"
    /\ image.width >= srcImage.width
    /\ image.height < srcImage.height
    /\ DstUntouched

UniformSource ==
    /\ call[1] = "downsampleCubemapLevelBoxFilter"
    /\ param.paint \in {"uniform", "seamless"}
    /\ src.dim % cm.dim = 0

DstFaceTexel(f, x, y) == LoadTexel(heap[image.buf], CrossAddr(image, f, cm.dim, x, y))

SrcFaceTexel(f, x, y) == LoadTexel(heap[srcImage.buf], CrossAddr(srcImage, f, src.dim, x, y))

C9_BilinearReadsInBounds ==
    call[1] = "downsampleCubemapLevelBoxFilter" =>
        \A e \in LogEntries :
           /\ Len(e.reads) = 4
           /\ \A i \in 1 .. 4 :
                LET r == e.reads[i]
                    o == CellOrigin(r.face, src.dim, srcImage.height > srcImage.width)
                IN  /\ r.face = e.f
                    /\ r.x = e.x * (src.dim \div cm.dim) + ((i - 1) % 2)
                    /\ r.y = e.y * (src.dim \div cm.dim) + ((i - 1) \div 2)
                    /\ r.x >= 0 /\ r.x <= src.dim
                    /\ r.y >= 0 /\ r.y <= src.dim
                    /\ o[1] + r.x <= srcImage.width
                    /\ o[2] + r.y <= srcImage.height
                    /\ r.buf = srcImage.buf
                    /\ r.addr = (o[2] + r.y) * srcImage.bpr + (o[1] + r.x) * 12
                    /\ r.addr + 12 <= heap[srcImage.buf].size
                    /\ r.inside

C9_Witness ==
    /\ call[1] = "downsampleCubemapLevelBoxFilter"
    /\ src.dim = cm.dim
    /\ srcImage.height > srcImage.width
    /\ \E e \in LogEntries :
          /\ e.f = "NZ"
          /\ e.reads[4].x = src.dim
          /\ e.reads[4].y = src.dim
          /\ e.reads[4].addr = srcImage.height * srcImage.bpr + 2 * src.dim * 12

CeilExtent(w) == (w + ExtentUnit - 1) \div ExtentUnit

\* C10 as stated: the number of samples averaged for a texel whose bounding
\* box has the extents w and h is max(1, ceil(w) * ceil(h)).
C10_SamplesCeilProduct ==
    call[1] = "equirectangularToCubemap" =>
        \A e \in LogEntries :
           Len(e.reads) = Max(1, CeilExtent(param.bbox[1]) * CeilExtent(param.bbox[2]))

\* C10 amended: the number of samples is the product max(1, w) * max(1, h)
\* truncated to an integer; it is at least 1, exactly that many source texels
\* are summed, each read inside the source image, and the texel written is
\* the sum scaled by 1 / numSamples.
C10_SamplesTruncatedProduct ==
    call[1] = "equirectangularToCubemap" =>
        \A e \in LogEntries :
           LET n == Len(e.reads)
               p == Max(ExtentUnit, param.bbox[1]) * Max(ExtentUnit, param.bbox[2])
           IN  /\ n >= 1
               /\ n * ExtentUnit * ExtentUnit <= p
               /\ p < (n + 1) * ExtentUnit * ExtentUnit
               /\ \A i \in 1 .. n :
                    /\ e.reads[i].inside
                    /\ e.reads[i].x < srcImage.width /\ e.reads[i].y < srcImage.height
               /\ \A i \in 1 .. 3 : n * e.value[i] = SumValues(e.reads, n)[i]

C10_Witness ==
    /\ call[1] = "equirectangularToCubemap"
    /\ param.bbox = << ExtentUnit + 1, ExtentUnit + 1 >>
    /\ \E e \in LogEntries :
          /\ Len(e.reads) = ((ExtentUnit + 1) * (ExtentUnit + 1)) \div (ExtentUnit * ExtentUnit)
          /\ Len(e.reads) < CeilExtent(param.bbox[1]) * CeilExtent(param.bbox[2])

====
